---- MODULE Spec2Model ----
(***************************************************************************)
(* Model of assets/product-popup.js: the product popup's selection state,  *)
(* variant resolution, and the add-to-cart promise chain with the          *)
(* Black + Medium auto-add of "dark-winter-jacket".                        *)
(*                                                                         *)
(* Every fetch() is a suspension point: the request is recorded as         *)
(* "pending" when it is issued and a later step resolves it to "ok" or     *)
(* "failed".  The promise callbacks that run between two suspension points *)
(* are microtasks, so they form one atomic step.  DOM events (color click, *)
(* size change, add-to-cart click, close) are separate steps that may      *)
(* interleave with pending requests.                                       *)
(***************************************************************************)
EXTENDS Integers, Sequences, FiniteSets, TLC

\* ------------------------------------------------------------------ bounds
MaxInvocations == 3   \* openProductPopup plus handleAddToCart invocations in one behaviour
MaxVariants == 2      \* length of the variant lists given to findMatchingVariant

\* ------------------------------------------------------------- JS values
NULL == "null"        \* JavaScript null / undefined (also an absent option)

\* currentProduct = null, written as a record so that it compares with a
\* product held before or after it.
NoProduct == [handle |-> NULL, variants |-> << >>]

\* String.prototype.toLowerCase over the strings of the model.
toLowerCase(s) ==
  CASE s \in {"black", "Black", "BLACK"} -> "black"
    [] s \in {"white", "White"} -> "white"
    [] s \in {"M", "m"} -> "m"
    [] s \in {"S", "s"} -> "s"
    [] s \in {"L", "l"} -> "l"
    [] s \in {"XS", "xs"} -> "xs"
    [] s \in {"XL", "xl"} -> "xl"
    [] s = "" -> ""

\* String.prototype.toUpperCase over the strings of the model.
toUpperCase(s) ==
  CASE s \in {"black", "Black", "BLACK"} -> "BLACK"
    [] s \in {"white", "White"} -> "WHITE"
    [] s \in {"M", "m"} -> "M"
    [] s \in {"S", "s"} -> "S"
    [] s \in {"L", "l"} -> "L"
    [] s \in {"XS", "xs"} -> "XS"
    [] s \in {"XL", "xl"} -> "XL"
    [] s = "" -> ""

\* JavaScript truthiness of a string-or-null value: null and "" are falsy.
Truthy(v) == v # NULL /\ v # ""

SIZE_OPTIONS == <<"XS", "S", "M", "L", "XL">>

\* The options of #popupSizeSelect the user picks in the model ("" is the
\* "Choose your size" option).
SizeInputs == {"", "M", "L"}

\* --------------------------------------------------------- product data
\* What /products/<handle>.js answers when the fetch succeeds.
Handles == {"shirt", "hat"}

Variant(id, c, s) == [id |-> id, option1 |-> c, option2 |-> s]

ProductData(handle) ==
  CASE handle = "shirt" ->
         [handle |-> "shirt",
          variants |-> << Variant(1, "black", "S"),
                          Variant(2, "black", "m"),
                          Variant(3, "black", "M"),
                          Variant(4, "white", "M") >>]
    [] handle = "hat" ->
         [handle |-> "hat",
          variants |-> << Variant(5, "BLACK", "M"),
                          Variant(6, NULL, "L") >>]

\* The possible bodies of /products/dark-winter-jacket.js.
JacketBodies == { << >>, << Variant(9, "black", "L"), Variant(10, "black", "M") >> }

\* ------------------------------------------------------ findMatchingVariant
\* Mutant: the color labels are compared as written.
VariantMatches_ExactColor(variant, color, size) ==
  LET variantColor == IF Truthy(variant.option1) THEN variant.option1 ELSE ""
      variantSize == IF Truthy(variant.option2) THEN toUpperCase(variant.option2) ELSE ""
  IN variantColor = color /\ variantSize = size

\* The callback given to find: option1 is the color, option2 the size.
VariantMatches(variant, color, size) ==
  LET variantColor == IF Truthy(variant.option1) THEN toLowerCase(variant.option1) ELSE ""
      variantSize == IF Truthy(variant.option2) THEN toUpperCase(variant.option2) ELSE ""
  IN variantColor = toLowerCase(color) /\ variantSize = size

\* Mutant: falls back to the first variant when nothing matches.
findMatchingVariant_DefaultFirst(variants, color, size) ==
  LET hits == {i \in DOMAIN variants : VariantMatches(variants[i], color, size)}
  IN IF hits = {} THEN (IF variants = << >> THEN 0 ELSE 1)
     ELSE CHOOSE i \in hits : \A j \in hits : i <= j

\* Array.prototype.find over product.variants: index of the first variant
\* accepted by the callback, 0 when there is none (find returns undefined).
findMatchingVariant(variants, color, size) ==
  LET hits == {i \in DOMAIN variants : VariantMatches(variants[i], color, size)}
  IN IF hits = {} THEN 0 ELSE CHOOSE i \in hits : \A j \in hits : i <= j

\* ------------------------------------------------------------------ state
VARIABLES
  currentProduct,   \* NoProduct or the product record held by the popup
  selectedColor,    \* NULL or a color label
  selectedSize,     \* NULL, "" (the "Choose your size" option) or a size
  modalActive,      \* modalElement has class "active"
  colorButtons,     \* data-color of the buttons in #popupColorButtons
  btnDisabled,      \* #popupAddToCart.disabled
  btnText,          \* text of #popupAddToCart .btn-text
  opens,            \* product fetches started by openProductPopup, in call order
  reqs,             \* one record per handleAddToCart invocation
  calls,            \* requests sent to the cart endpoints, in issue order
  notifications,    \* showNotification calls, in order
  closeTimers,      \* pending setTimeout(closePopup, 1000) callbacks
  cartFetches,      \* pending fetch('/cart.js') of updateCartCount
  cartUpdated,      \* 'cart:updated' events dispatched by updateCartCount
  selectionFresh,   \* history: a color or size was picked since the last
                    \* "Added to cart"
  closedSession,    \* history: the popup session the user closed last (0: none)
  findIn,           \* input of a stand-alone findMatchingVariant evaluation
  findOut           \* its result (-1 before it is applied)

vars == << currentProduct, selectedColor, selectedSize, modalActive,
           colorButtons, btnDisabled, btnText, opens, reqs, calls,
           notifications, closeTimers, cartFetches, cartUpdated,
           selectionFresh, closedSession, findIn, findOut >>

domVars == << modalActive, colorButtons, btnDisabled, btnText >>
findVars == << findIn, findOut >>

NoFind == [variants |-> << >>, color |-> "", size |-> ""]

Init ==
  /\ currentProduct = NoProduct
  /\ selectedColor = NULL
  /\ selectedSize = NULL
  /\ modalActive = FALSE
  /\ colorButtons = {}
  /\ btnDisabled = FALSE
  /\ btnText = "ADD TO CART"
  /\ opens = << >>
  /\ reqs = << >>
  /\ calls = << >>
  /\ notifications = << >>
  /\ closeTimers = 0
  /\ cartFetches = 0
  /\ cartUpdated = 0
  /\ selectionFresh = FALSE
  /\ closedSession = 0
  /\ findIn = NoFind
  /\ findOut = -1


\* ------------------------------------------------------------ DOM helpers
\* Mutant: the button is enabled as soon as a color or a size is chosen.
updateAddToCartButton_Either(color, size) == ~(Truthy(color) \/ Truthy(size))

\* updateAddToCartButton: the value it leaves in #popupAddToCart.disabled.
updateAddToCartButton(color, size) == ~(Truthy(color) /\ Truthy(size))

\* showNotification(message, type); req is the handleAddToCart invocation the
\* call belongs to (0 for openProductPopup).
showNotification(message, type, req) ==
  notifications' = Append(notifications, [message |-> message, type |-> type, req |-> req])

\* A request sent to the shop.  step names the place that issued it.
Call(req, step, op, id, quantity) ==
  [req |-> req, step |-> step, op |-> op, id |-> id, quantity |-> quantity,
   status |-> "pending"]

\* Mutant: the quantity is sent as given, without the default of 1.
addToCart_NoDefaultQuantity(req, step, variantId, quantity) ==
  Call(req, step, "addLine", variantId, quantity)

\* addToCart(variantId, quantity): quantity = quantity || 1, POST /cart/add.js
\* (quantity 0 stands for the argument left out).
addToCart(req, step, variantId, quantity) ==
  Call(req, step, "addLine", variantId, IF quantity = 0 THEN 1 ELSE quantity)

\* Index in calls of the pending request of invocation r issued by step st.
PendingCall(r, st) ==
  CHOOSE k \in DOMAIN calls :
    calls[k].req = r /\ calls[k].step = st /\ calls[k].status = "pending"

SetStatus(cs, k, st) == [cs EXCEPT ![k].status = st]
SetPhase(r, ph) == [reqs EXCEPT ![r].phase = ph]

\* closePopup
closePopup ==
  /\ modalActive' = FALSE
  /\ currentProduct' = NoProduct
  /\ selectedColor' = NULL
  /\ selectedSize' = NULL

\* ------------------------------------------------------- openProductPopup
\* openProductPopup(handle): starts the fetch.  after is history: the popup
\* session the user had closed when the call was made.
OpenProductPopup(h) ==
  /\ Len(opens) + Len(reqs) < MaxInvocations
  /\ opens' = Append(opens, [handle |-> h, status |-> "pending",
                             after |-> closedSession])
  /\ UNCHANGED << currentProduct, selectedColor, selectedSize, domVars, reqs,
                  calls, notifications, closeTimers, cartFetches, cartUpdated, selectionFresh, closedSession, findVars >>

\* renderColorVariants: the set of truthy option1 values of the variants.
renderColorVariants(product) ==
  {product.variants[i].option1 : i \in {j \in DOMAIN product.variants :
                                          Truthy(product.variants[j].option1)}}

\* fetchProductData resolved: .then(currentProduct = product;
\* renderPopupContent; showPopup)
ProductFetchOk(i) ==
  /\ i \in DOMAIN opens /\ opens[i].status = "pending"
  /\ opens' = [opens EXCEPT ![i].status = "ok"]
  /\ currentProduct' = ProductData(opens[i].handle)
  /\ selectedColor' = NULL
  /\ selectedSize' = NULL
  /\ colorButtons' = renderColorVariants(ProductData(opens[i].handle))
  /\ btnDisabled' = updateAddToCartButton(NULL, NULL)
  /\ modalActive' = TRUE
  /\ UNCHANGED << btnText, reqs, calls, notifications, closeTimers, cartFetches, cartUpdated, selectionFresh, closedSession, findVars >>

\* Mutant: the .catch also closes the popup.
ProductFetchFail_Closes(i) ==
  /\ i \in DOMAIN opens /\ opens[i].status = "pending"
  /\ opens' = [opens EXCEPT ![i].status = "failed"]
  /\ showNotification("Failed to load product. Please try again.", "error", 0)
  /\ closePopup
  /\ UNCHANGED << colorButtons, btnDisabled, btnText, reqs,
                  calls, closeTimers, cartFetches, cartUpdated, selectionFresh, closedSession, findVars >>

\* fetchProductData rejected (network error, !response.ok or a body that is
\* not JSON): .catch
ProductFetchFail(i) ==
  /\ i \in DOMAIN opens /\ opens[i].status = "pending"
  /\ opens' = [opens EXCEPT ![i].status = "failed"]
  /\ showNotification("Failed to load product. Please try again.", "error", 0)
  /\ UNCHANGED << currentProduct, selectedColor, selectedSize, domVars, reqs,
                  calls, closeTimers, cartFetches, cartUpdated, selectionFresh, closedSession, findVars >>

\* ------------------------------------------------------------ DOM events
\* Click on a color button -> selectColor(color, button)
SelectColor(c) ==
  /\ modalActive
  /\ c \in colorButtons
  /\ selectedColor' = c
  /\ btnDisabled' = updateAddToCartButton(c, selectedSize)
  /\ selectionFresh' = TRUE
  /\ UNCHANGED << currentProduct, selectedSize, modalActive, colorButtons,
                  btnText, opens, reqs, calls, notifications, closeTimers,
                  cartFetches, cartUpdated, closedSession, findVars >>

\* change event of #popupSizeSelect: fires when the chosen option differs
\* from the one shown ("" right after populateSizeDropdown).
SizeChange(s) ==
  /\ modalActive
  /\ s \in {""} \cup {SIZE_OPTIONS[i] : i \in DOMAIN SIZE_OPTIONS}
  /\ s # (IF selectedSize = NULL THEN "" ELSE selectedSize)
  /\ selectedSize' = s
  /\ btnDisabled' = updateAddToCartButton(selectedColor, s)
  /\ selectionFresh' = TRUE
  /\ UNCHANGED << currentProduct, selectedColor, modalActive, colorButtons,
                  btnText, opens, reqs, calls, notifications, closeTimers,
                  cartFetches, cartUpdated, closedSession, findVars >>

\* How many times showPopup has run: the number of the popup session on screen.
Shown == Cardinality({i \in DOMAIN opens : opens[i].status = "ok"})

\* Close button, click on the overlay, or ESC while the overlay is active.
ClosePopupUser ==
  /\ modalActive
  /\ closePopup
  /\ closedSession' = Shown
  /\ UNCHANGED << colorButtons, btnDisabled, btnText, opens, reqs, calls,
                  notifications, closeTimers, cartFetches, cartUpdated,
                  selectionFresh, findVars >>

\* The setTimeout(closePopup, 1000) scheduled by a successful submission.
CloseTimerFire ==
  /\ closeTimers > 0
  /\ closeTimers' = closeTimers - 1
  /\ closePopup
  /\ UNCHANGED << colorButtons, btnDisabled, btnText, opens, reqs, calls,
                  notifications, cartFetches, cartUpdated, selectionFresh, closedSession, findVars >>

\* ---------------------------------------------------------- handleAddToCart
\* The record of a handleAddToCart invocation; color, size and session are
\* history: the selection and the popup session at the click.
NewReq(phase, variant) ==
  [phase |-> phase, color |-> selectedColor, size |-> selectedSize,
   variant |-> variant, bundle |-> "none", session |-> Shown]

\* Mutant: the validation looks at the color only.
ClickAddToCart_ColorOnly ==
  LET r == Len(reqs) + 1
      idx == findMatchingVariant(currentProduct.variants, selectedColor, selectedSize)
  IN
  /\ modalActive
  /\ ~btnDisabled
  /\ Len(opens) + Len(reqs) < MaxInvocations
  /\ IF ~Truthy(selectedColor)
       THEN /\ showNotification("Please select both color and size", "error", r)
            /\ reqs' = Append(reqs, NewReq("incomplete", 0))
            /\ UNCHANGED << btnDisabled, btnText, calls >>
     ELSE IF idx = 0
       THEN /\ showNotification("This combination is not available", "error", r)
            /\ reqs' = Append(reqs, NewReq("novariant", 0))
            /\ UNCHANGED << btnDisabled, btnText, calls >>
     ELSE /\ btnDisabled' = TRUE
          /\ btnText' = "ADDING..."
          /\ calls' = Append(calls, addToCart(r, "primary", currentProduct.variants[idx].id, 0))
          /\ reqs' = Append(reqs, NewReq("primary", currentProduct.variants[idx].id))
          /\ UNCHANGED notifications
  /\ UNCHANGED << currentProduct, selectedColor, selectedSize, modalActive,
                  colorButtons, opens, closeTimers, cartFetches, cartUpdated, selectionFresh, closedSession, findVars >>

\* Click on #popupAddToCart (a disabled button dispatches no click event).
ClickAddToCart ==
  LET r == Len(reqs) + 1
      idx == findMatchingVariant(currentProduct.variants, selectedColor, selectedSize)
  IN
  /\ modalActive
  /\ ~btnDisabled
  /\ Len(opens) + Len(reqs) < MaxInvocations
  /\ IF ~Truthy(selectedColor) \/ ~Truthy(selectedSize)
       THEN /\ showNotification("Please select both color and size", "error", r)
            /\ reqs' = Append(reqs, NewReq("incomplete", 0))
            /\ UNCHANGED << btnDisabled, btnText, calls >>
     ELSE IF idx = 0
       THEN /\ showNotification("This combination is not available", "error", r)
            /\ reqs' = Append(reqs, NewReq("novariant", 0))
            /\ UNCHANGED << btnDisabled, btnText, calls >>
     ELSE /\ btnDisabled' = TRUE
          /\ btnText' = "ADDING..."
          /\ calls' = Append(calls, addToCart(r, "primary", currentProduct.variants[idx].id, 0))
          /\ reqs' = Append(reqs, NewReq("primary", currentProduct.variants[idx].id))
          /\ UNCHANGED notifications
  /\ UNCHANGED << currentProduct, selectedColor, selectedSize, modalActive,
                  colorButtons, opens, closeTimers, cartFetches, cartUpdated, selectionFresh, closedSession, findVars >>

\* selectedColor null makes selectedColor.toLowerCase() throw a TypeError.
BundleThrows == selectedColor = NULL

\* Mutant: the color is compared without toLowerCase().
BundleTriggers_CaseSensitive == selectedColor = "black" /\ selectedSize = "M"

\* The special rule of the first .then: Black + Medium.
BundleTriggers == toLowerCase(selectedColor) = "black" /\ selectedSize = "M"

\* finally: re-enable the button
Finally ==
  /\ btnDisabled' = FALSE
  /\ btnText' = "ADD TO CART"

\* Mutant: the second .then schedules no closePopup.
ThenSuccess_NoTimer(r, cs, bundle) ==
  /\ showNotification("Added to cart", "success", r)
  /\ calls' = cs
  /\ cartFetches' = cartFetches + 1
  /\ closeTimers' = closeTimers
  /\ reqs' = [reqs EXCEPT ![r].phase = "success", ![r].bundle = bundle]
  /\ selectionFresh' = FALSE
  /\ Finally

\* second .then, followed by finally: success notification, updateCartCount,
\* setTimeout(closePopup, 1000).  cs is calls as left by the steps before.
ThenSuccess(r, cs, bundle) ==
  /\ showNotification("Added to cart", "success", r)
  /\ calls' = cs
  /\ cartFetches' = cartFetches + 1
  /\ closeTimers' = closeTimers + 1
  /\ reqs' = [reqs EXCEPT ![r].phase = "success", ![r].bundle = bundle]
  /\ selectionFresh' = FALSE
  /\ Finally

\* Mutant: the .catch only logs to the console.
CatchError_Silent(r, cs, bundle) ==
  /\ calls' = cs
  /\ UNCHANGED << notifications, closeTimers, cartFetches, selectionFresh >>
  /\ reqs' = [reqs EXCEPT ![r].phase = "error", ![r].bundle = bundle]
  /\ Finally

\* .catch followed by finally
CatchError(r, cs, bundle) ==
  /\ showNotification(IF bundle = "threw"
                        THEN "A problem happened. Error: Cannot read properties of null"
                        ELSE "A problem happened. Error: Failed to add to cart",
                      "error", r)
  /\ calls' = cs
  /\ UNCHANGED << closeTimers, cartFetches, selectionFresh >>
  /\ reqs' = [reqs EXCEPT ![r].phase = "error", ![r].bundle = bundle]
  /\ Finally

\* The first .then of handleAddToCart, run when addToCart fulfils.  cs is
\* calls with the answer recorded.
ThenBundleRule(r, cs) ==
  IF BundleThrows
    THEN CatchError(r, cs, "threw")
  ELSE IF BundleTriggers
    THEN \* autoAddSoftWinterJacket: fetch('/products/dark-winter-jacket.js')
         /\ calls' = Append(cs, Call(r, "bundleLookup", "productLookup", 0, 0))
         /\ reqs' = [reqs EXCEPT ![r].phase = "bundleLookup", ![r].bundle = "triggered"]
         /\ UNCHANGED << btnDisabled, btnText, notifications, closeTimers,
                         cartFetches, selectionFresh >>
  ELSE ThenSuccess(r, cs, "skipped")

\* POST /cart/add.js of the primary variant answered ok
PrimaryOk(r) ==
  /\ r \in DOMAIN reqs /\ reqs[r].phase = "primary"
  /\ ThenBundleRule(r, SetStatus(calls, PendingCall(r, "primary"), "ok"))
  /\ UNCHANGED << currentProduct, selectedColor, selectedSize, modalActive,
                  colorButtons, opens, cartUpdated, closedSession, findVars >>

\* Mutant: addToCart does not check response.ok, so a refused add fulfils.
PrimaryFail_NoOkCheck(r) ==
  /\ r \in DOMAIN reqs /\ reqs[r].phase = "primary"
  /\ ThenBundleRule(r, SetStatus(calls, PendingCall(r, "primary"), "failed"))
  /\ UNCHANGED << currentProduct, selectedColor, selectedSize, modalActive,
                  colorButtons, opens, cartUpdated, closedSession, findVars >>

\* Mutant: a failed add of the primary variant is sent once more.
PrimaryFail_Retry(r) ==
  /\ r \in DOMAIN reqs /\ reqs[r].phase = "primary"
  /\ LET k  == PendingCall(r, "primary")
         cs == SetStatus(calls, k, "failed") IN
       IF Cardinality({j \in DOMAIN calls : calls[j].req = r}) = 1
         THEN /\ calls' = Append(cs, addToCart(r, "primary", calls[k].id, 0))
              /\ UNCHANGED << reqs, btnDisabled, btnText, notifications,
                              closeTimers, cartFetches, selectionFresh >>
         ELSE CatchError(r, cs, "none")
  /\ UNCHANGED << currentProduct, selectedColor, selectedSize, modalActive,
                  colorButtons, opens, cartUpdated, closedSession, findVars >>

\* POST /cart/add.js of the primary variant failed (rejected or !response.ok)
PrimaryFail(r) ==
  /\ r \in DOMAIN reqs /\ reqs[r].phase = "primary"
  /\ CatchError(r, SetStatus(calls, PendingCall(r, "primary"), "failed"), "none")
  /\ UNCHANGED << currentProduct, selectedColor, selectedSize, modalActive,
                  colorButtons, opens, cartUpdated, closedSession, findVars >>

\* /products/dark-winter-jacket.js answered with a product body
BundleLookupOk(r, body) ==
  /\ r \in DOMAIN reqs /\ reqs[r].phase = "bundleLookup"
  /\ body \in JacketBodies
  /\ LET cs == SetStatus(calls, PendingCall(r, "bundleLookup"), "ok") IN
       IF body = << >>
         THEN \* jacket.variants[0].id throws, caught inside autoAddSoftWinterJacket
              ThenSuccess(r, cs, "novariants")
         ELSE /\ calls' = Append(cs, addToCart(r, "bundleAdd", body[1].id, 1))
              /\ reqs' = SetPhase(r, "bundleAdd")
              /\ UNCHANGED << btnDisabled, btnText, notifications, closeTimers,
                              cartFetches, selectionFresh >>
  /\ UNCHANGED << currentProduct, selectedColor, selectedSize, modalActive,
                  colorButtons, opens, cartUpdated, closedSession, findVars >>

\* Mutant: autoAddSoftWinterJacket has no .catch of its own.
BundleLookupFail_Uncaught(r) ==
  /\ r \in DOMAIN reqs /\ reqs[r].phase = "bundleLookup"
  /\ CatchError(r, SetStatus(calls, PendingCall(r, "bundleLookup"), "failed"), "lookupfailed")
  /\ UNCHANGED << currentProduct, selectedColor, selectedSize, modalActive,
                  colorButtons, opens, cartUpdated, closedSession, findVars >>

\* /products/dark-winter-jacket.js failed: caught inside autoAddSoftWinterJacket
BundleLookupFail(r) ==
  /\ r \in DOMAIN reqs /\ reqs[r].phase = "bundleLookup"
  /\ ThenSuccess(r, SetStatus(calls, PendingCall(r, "bundleLookup"), "failed"), "lookupfailed")
  /\ UNCHANGED << currentProduct, selectedColor, selectedSize, modalActive,
                  colorButtons, opens, cartUpdated, closedSession, findVars >>

\* POST /cart/add.js of the jacket answered (ok or not): either way the
\* promise of autoAddSoftWinterJacket fulfils
BundleAddDone(r, ok) ==
  /\ r \in DOMAIN reqs /\ reqs[r].phase = "bundleAdd"
  /\ ThenSuccess(r, SetStatus(calls, PendingCall(r, "bundleAdd"), IF ok THEN "ok" ELSE "failed"),
                 IF ok THEN "added" ELSE "addfailed")
  /\ UNCHANGED << currentProduct, selectedColor, selectedSize, modalActive,
                  colorButtons, opens, cartUpdated, closedSession, findVars >>

\* Mutant: a failed /cart.js is reported to the user.
CartFetchDone_ReportsFailure(ok) ==
  /\ cartFetches > 0
  /\ cartFetches' = cartFetches - 1
  /\ cartUpdated' = IF ok THEN cartUpdated + 1 ELSE cartUpdated
  /\ IF ok THEN UNCHANGED notifications
           ELSE showNotification("A problem happened. Error: cart", "error", 0)
  /\ UNCHANGED << currentProduct, selectedColor, selectedSize, domVars, opens,
                  reqs, calls, closeTimers, selectionFresh, closedSession, findVars >>

\* updateCartCount: /cart.js answered (the count goes to the theme's cart
\* badge and a cart:updated event) or failed (logged); the popup reads neither
CartFetchDone(ok) ==
  /\ cartFetches > 0
  /\ cartFetches' = cartFetches - 1
  /\ cartUpdated' = IF ok THEN cartUpdated + 1 ELSE cartUpdated
  /\ UNCHANGED << currentProduct, selectedColor, selectedSize, domVars, opens,
                  reqs, calls, notifications, closeTimers, selectionFresh, closedSession,
                  findVars >>

Next ==
  \/ \E h \in Handles : OpenProductPopup(h)
  \/ \E i \in DOMAIN opens : ProductFetchOk(i)
  \/ \E i \in DOMAIN opens : ProductFetchFail(i)
  \/ \E c \in colorButtons : SelectColor(c)
  \/ \E s \in SizeInputs : SizeChange(s)
  \/ ClosePopupUser
  \/ CloseTimerFire
  \/ ClickAddToCart
  \/ \E r \in DOMAIN reqs : PrimaryOk(r)
  \/ \E r \in DOMAIN reqs : PrimaryFail(r)
  \/ \E r \in DOMAIN reqs, body \in JacketBodies : BundleLookupOk(r, body)
  \/ \E r \in DOMAIN reqs : BundleLookupFail(r)
  \/ \E r \in DOMAIN reqs, ok \in BOOLEAN : BundleAddDone(r, ok)
  \/ \E ok \in BOOLEAN : CartFetchDone(ok)

Spec == Init /\ [][Next]_vars

\* The steps taken by the user or the page script (DOM events and
\* openProductPopup) and the steps the browser takes on its own (fetch
\* answers, promise callbacks, the close timer).
UserNext ==
  \/ \E h \in Handles : OpenProductPopup(h)
  \/ \E c \in colorButtons : SelectColor(c)
  \/ \E s \in SizeInputs : SizeChange(s)
  \/ ClosePopupUser
  \/ ClickAddToCart

SystemNext ==
  \/ \E i \in DOMAIN opens : ProductFetchOk(i)
  \/ \E i \in DOMAIN opens : ProductFetchFail(i)
  \/ CloseTimerFire
  \/ \E r \in DOMAIN reqs : PrimaryOk(r)
  \/ \E r \in DOMAIN reqs : PrimaryFail(r)
  \/ \E r \in DOMAIN reqs, body \in JacketBodies : BundleLookupOk(r, body)
  \/ \E r \in DOMAIN reqs : BundleLookupFail(r)
  \/ \E r \in DOMAIN reqs, ok \in BOOLEAN : BundleAddDone(r, ok)
  \/ \E ok \in BOOLEAN : CartFetchDone(ok)

\* The popup left alone after a success: the user acts only as long as no
\* submission has succeeded, every pending fetch is answered and every
\* scheduled timer fires.
NoSuccessYet == \A r \in DOMAIN reqs : reqs[r].phase # "success"

NextAuto ==
  \/ NoSuccessYet /\ UserNext
  \/ SystemNext

\* Every step of SystemNext changes one of these (it answers a fetch or
\* fires a timer).
pendingVars == << opens, reqs, calls, closeTimers, cartFetches >>

SpecAuto == Init /\ [][NextAuto]_vars /\ WF_pendingVars(SystemNext)

\* ------------------------------------- findMatchingVariant on its own
\* Variant lists of up to MaxVariants variants (ids are the list positions)
\* with option labels in several letter cases or absent.  The selected color
\* is the label of one of the list's color buttons and the selected size one
\* of SIZE_OPTIONS, as in every call handleAddToCart makes.
FindSizes == {"S", "M"}
FindOptions1 == {NULL, "black", "BLACK", "white"}
FindOptions2 == {NULL, "M", "m", "S"}

FindVariantLists ==
  UNION { [1..n -> FindOptions1 \X FindOptions2] : n \in 0..MaxVariants }

FindInput(l, c, s) ==
  [variants |-> [i \in DOMAIN l |-> Variant(i, l[i][1], l[i][2])],
   color |-> c, size |-> s]

InitFind ==
  /\ currentProduct = NoProduct
  /\ selectedColor = NULL
  /\ selectedSize = NULL
  /\ modalActive = FALSE
  /\ colorButtons = {}
  /\ btnDisabled = FALSE
  /\ btnText = "ADD TO CART"
  /\ opens = << >>
  /\ reqs = << >>
  /\ calls = << >>
  /\ notifications = << >>
  /\ closeTimers = 0
  /\ cartFetches = 0
  /\ cartUpdated = 0
  /\ selectionFresh = FALSE
  /\ closedSession = 0
  /\ \E l \in FindVariantLists, s \in FindSizes :
       \E c \in renderColorVariants(FindInput(l, "", s)) :
         findIn = FindInput(l, c, s)
  /\ findOut = -1

ApplyFind ==
  /\ findOut = -1
  /\ findOut' = findMatchingVariant(findIn.variants, findIn.color, findIn.size)
  /\ UNCHANGED << currentProduct, selectedColor, selectedSize, domVars, opens,
                  reqs, calls, notifications, closeTimers, cartFetches, cartUpdated,
                  selectionFresh, closedSession, findIn >>

NextFind == ApplyFind

SpecFind == InitFind /\ [][NextFind]_vars

TypeOK ==
  /\ modalActive \in BOOLEAN /\ btnDisabled \in BOOLEAN
  /\ closeTimers \in 0..MaxInvocations /\ cartFetches \in 0..MaxInvocations
  /\ Len(opens) + Len(reqs) <= MaxInvocations


\* ================================================================ claims
\* Vocabulary of the claims, stated on the logs.
InFlight(r) == reqs[r].phase \in {"primary", "bundleLookup", "bundleAdd"}
Resolved(r) == reqs[r].phase \in {"success", "error"}
CallsOf(r, st) == {k \in DOMAIN calls : calls[k].req = r /\ calls[k].step = st}
NotesOf(r, type) == {n \in DOMAIN notifications :
                       notifications[n].req = r /\ notifications[n].type = type}
PrimaryStatus(r, st) == \E k \in CallsOf(r, "primary") : calls[k].status = st
RuleHolds(color, size) == Truthy(color) /\ toLowerCase(color) = "black" /\ size = "M"
\* A step that is one handleAddToCart invocation.
SubmitStep == Len(reqs') = Len(reqs) + 1
NoGatewayCall == calls' = calls /\ cartFetches' = cartFetches /\ opens' = opens
LastNote == notifications'[Len(notifications')]

\* C1: while a submission is in flight (primary addLine, bundle lookup or
\* bundle addLine unresolved) no further submission starts, so at most one
\* submission is in flight at any time and the primary addLine calls never
\* overlap.
C1_SingleSubmissionInFlight ==
  Cardinality({r \in DOMAIN reqs : InFlight(r)}) <= 1

\* C2: a submission whose primary addLine failed resolves with an error
\* notification and no success notification, and issues neither the bundle
\* product lookup nor a bundle addLine, whatever was selected.
C2_PrimaryFailureIsFatal ==
  \A r \in DOMAIN reqs :
    PrimaryStatus(r, "failed") =>
      /\ reqs[r].phase = "error"
      /\ Cardinality(NotesOf(r, "error")) = 1
      /\ NotesOf(r, "success") = {}
      /\ CallsOf(r, "bundleLookup") = {} /\ CallsOf(r, "bundleAdd") = {}

\* A submission made with (black, M) whose primary addLine failed.
C2_Witness ==
  \E r \in DOMAIN reqs :
    PrimaryStatus(r, "failed") /\ RuleHolds(reqs[r].color, reqs[r].size)

\* C3: when the primary addLine succeeded and the bundle step was started,
\* every failure of the bundle step (lookup failed, no variants, bundle
\* addLine failed) still ends in success: one success notification, no error
\* notification, and the primary line stays added (no other cart write).
C3_BundleFailureSwallowed ==
  \A r \in DOMAIN reqs :
    reqs[r].bundle \in {"lookupfailed", "novariants", "addfailed"} =>
      /\ reqs[r].phase = "success"
      /\ Cardinality(NotesOf(r, "success")) = 1
      /\ NotesOf(r, "error") = {}
      /\ PrimaryStatus(r, "ok")
      /\ \A k \in DOMAIN calls : calls[k].op \in {"addLine", "productLookup"}

\* Two submissions in one state: one whose bundle addLine failed and one whose
\* bundle lookup failed or found no variants.
C3_Witness ==
  \E r1, r2 \in DOMAIN reqs :
    /\ reqs[r1].bundle = "addfailed"
    /\ reqs[r2].bundle \in {"lookupfailed", "novariants"}

\* C4: a submit with an incomplete selection (color absent, size absent or
\* empty) issues no request at all, shows the "select both" error and leaves
\* product, selection, button and timers as they were.
C4_IncompleteSubmitStep ==
  (SubmitStep /\ (~Truthy(selectedColor) \/ ~Truthy(selectedSize))) =>
    /\ NoGatewayCall
    /\ Len(notifications') = Len(notifications) + 1
    /\ LastNote.type = "error"
    /\ LastNote.message = "Please select both color and size"
    /\ reqs'[Len(reqs')].phase = "incomplete"
    /\ UNCHANGED << currentProduct, selectedColor, selectedSize, domVars, closeTimers >>

C4_IncompleteSelectionRejected == [][C4_IncompleteSubmitStep]_vars

\* A submit was made with a color but the empty size option.
C4_Witness ==
  \E r \in DOMAIN reqs :
    /\ reqs[r].phase = "incomplete" /\ reqs[r].size = "" /\ Truthy(reqs[r].color)
    /\ NotesOf(r, "error") # {}

\* C5: a submit with a complete selection that no variant of the loaded
\* product matches issues no request and shows the "not available" error;
\* and a step issues the primary addLine only for a variant the selection
\* resolves to in that same step.
HasMatch(variants, color, size) ==
  \E i \in DOMAIN variants : VariantMatches(variants[i], color, size)

C5_NoVariantSubmitStep ==
  /\ (SubmitStep /\ Truthy(selectedColor) /\ Truthy(selectedSize)
        /\ ~HasMatch(currentProduct.variants, selectedColor, selectedSize)) =>
       /\ NoGatewayCall
       /\ Len(notifications') = Len(notifications) + 1
       /\ LastNote.type = "error"
       /\ LastNote.message = "This combination is not available"
       /\ UNCHANGED << currentProduct, selectedColor, selectedSize, domVars, closeTimers >>
  /\ \A k \in DOMAIN calls' :
       (k \notin DOMAIN calls /\ calls'[k].step = "primary") =>
         /\ SubmitStep
         /\ \E i \in DOMAIN currentProduct.variants :
              /\ VariantMatches(currentProduct.variants[i], selectedColor, selectedSize)
              /\ calls'[k].id = currentProduct.variants[i].id

C5_NoMatchingVariantRejected == [][C5_NoVariantSubmitStep]_vars

\* A complete selection was submitted and rejected for lack of a variant.
C5_Witness ==
  \E r \in DOMAIN reqs :
    /\ reqs[r].phase = "novariant"
    /\ Truthy(reqs[r].color) /\ Truthy(reqs[r].size)
    /\ CallsOf(r, "primary") = {}


\* C6: whether the bundle step is attempted for a submission is decided by
\* the color and size that were selected when the submission was made
\* (recorded in reqs[r].color, reqs[r].size), whatever the user does while the
\* primary addLine is pending.
C6_BundleDecidedOnSubmittedSelection ==
  \A r \in DOMAIN reqs :
    reqs[r].bundle # "none" =>
      (reqs[r].bundle \notin {"skipped", "threw"}
         <=> RuleHolds(reqs[r].color, reqs[r].size))

\* The step in which the primary addLine of submission r is answered ok.
PrimaryAnsweredOk(r) ==
  /\ reqs[r].phase = "primary"
  /\ \E k \in DOMAIN calls' :
       calls'[k].req = r /\ calls'[k].step = "primary" /\ calls'[k].status = "ok"

\* C7: when the overlay was closed (selection and product reset) while the
\* primary addLine was pending and the addLine then succeeds, the submission
\* does not end in an error: no error notification is shown for it.
C7_ClosedWhilePendingStep ==
  \A r \in DOMAIN reqs :
    (PrimaryAnsweredOk(r) /\ ~modalActive /\ selectedColor = NULL) =>
      /\ reqs'[r].phase # "error"
      /\ \A n \in DOMAIN notifications' :
           notifications'[n].req = r => notifications'[n].type = "success"

C7_SuccessAfterClose == [][C7_ClosedWhilePendingStep]_vars

\* C8 (as claimed): the result is the first variant whose color equals the
\* selected color ignoring case and whose size label equals the selected size
\* exactly, and not-found (0) when there is none.
C8_ExactMatch(v, c, s) ==
  /\ Truthy(v.option1) /\ toLowerCase(v.option1) = toLowerCase(c)
  /\ v.option2 = s

C8_FoldedMatch(v, c, s) ==
  /\ Truthy(v.option1) /\ toLowerCase(v.option1) = toLowerCase(c)
  /\ Truthy(v.option2) /\ toUpperCase(v.option2) = s

C9_RuleStep ==
  \A r \in DOMAIN reqs :
    (PrimaryAnsweredOk(r) /\ Truthy(selectedColor) /\ Truthy(selectedSize)) =>
      ((\E k \in DOMAIN calls' :
          k \notin DOMAIN calls /\ calls'[k].req = r /\ calls'[k].step = "bundleLookup")
       <=> (toLowerCase(selectedColor) = "black" /\ selectedSize = "M"))

C9_BundleRule == [][C9_RuleStep]_vars

\* The bundle lookup was started for a selection (black, M) whose resolved
\* variant (id 2) carries the size label "m".
C9_Witness ==
  \E r \in DOMAIN reqs :
    /\ reqs[r].phase = "bundleLookup" /\ reqs[r].variant = 2
    /\ selectedColor = "black" /\ selectedSize = "M"
    /\ CallsOf(r, "bundleLookup") # {}

\* C10: the calls of one submission are ordered.  The primary addLine carries
\* the id of a variant matching the submitted selection and quantity 1; a
\* bundle lookup comes after the primary addLine of the same submission was
\* answered ok; a bundle addLine (first variant of the bundle product,
\* quantity 1) comes after the lookup was answered ok; the success
\* notification comes when no call of the submission is pending; and a
\* submission whose rule did not trigger has no bundle call.
C10_OrderedCalls ==
  /\ \A k \in DOMAIN calls :
       LET r == calls[k].req IN
       /\ calls[k].step = "primary" =>
            /\ calls[k].op = "addLine" /\ calls[k].quantity = 1
            /\ \E h \in Handles : \E i \in DOMAIN ProductData(h).variants :
                 /\ ProductData(h).variants[i].id = calls[k].id
                 /\ C8_FoldedMatch(ProductData(h).variants[i], reqs[r].color, reqs[r].size)
       /\ calls[k].step = "bundleLookup" =>
            /\ calls[k].op = "productLookup"
            /\ \E i \in 1..(k - 1) :
                 calls[i].req = r /\ calls[i].step = "primary" /\ calls[i].status = "ok"
       /\ calls[k].step = "bundleAdd" =>
            /\ calls[k].op = "addLine" /\ calls[k].quantity = 1
            /\ \E body \in JacketBodies : body # << >> /\ calls[k].id = body[1].id
            /\ \E i \in 1..(k - 1) :
                 calls[i].req = r /\ calls[i].step = "bundleLookup" /\ calls[i].status = "ok"
  /\ \A r \in DOMAIN reqs :
       /\ NotesOf(r, "success") # {} =>
            /\ PrimaryStatus(r, "ok")
            /\ \A k \in DOMAIN calls : calls[k].req = r => calls[k].status # "pending"
       /\ reqs[r].bundle \in {"none", "skipped", "threw"} =>
            CallsOf(r, "bundleLookup") = {} /\ CallsOf(r, "bundleAdd") = {}
       /\ Cardinality(CallsOf(r, "primary")) <= 1
       /\ Cardinality(CallsOf(r, "bundleLookup")) <= 1
       /\ Cardinality(CallsOf(r, "bundleAdd")) <= 1

\* One submission went through primary addLine, lookup and bundle addLine to
\* success, and one made with (white, M) succeeded without a bundle call.
C10_Witness ==
  \E r1, r2 \in DOMAIN reqs :
    /\ reqs[r1].bundle = "added" /\ reqs[r1].phase = "success"
    /\ reqs[r2].color = "white" /\ reqs[r2].size = "M"
    /\ reqs[r2].bundle = "skipped" /\ reqs[r2].phase = "success"


\* C11: every handleAddToCart invocation reports one outcome: none while its
\* calls are unresolved, and exactly one notification, a success or an error,
\* once it has returned or resolved (rejected by validation, no variant,
\* primary failure, success with or without the bundle step).
NotesFor(r) == {n \in DOMAIN notifications : notifications[n].req = r}

C11_OneOutcomePerRequest ==
  \A r \in DOMAIN reqs :
    IF InFlight(r)
      THEN NotesFor(r) = {}
      ELSE /\ Cardinality(NotesFor(r)) = 1
           /\ \A n \in NotesFor(r) :
                /\ notifications[n].type \in {"success", "error"}
                /\ notifications[n].type = "success" <=> reqs[r].phase = "success"

\* One invocation ended in success and another in an error after its primary
\* addLine was answered.
C11_Witness ==
  \E r1, r2 \in DOMAIN reqs :
    /\ reqs[r1].phase = "success"
    /\ reqs[r2].phase = "error" /\ CallsOf(r2, "primary") # {}


\* C12: the step in which a product fetch started by openProductPopup fails
\* shows the "Failed to load product" error and leaves the overlay, the
\* current product, the selection and the button as they were; the overlay
\* is not shown by that step.
C12_FetchFailedStep ==
  \A i \in DOMAIN opens :
    (opens[i].status = "pending" /\ opens'[i].status = "failed") =>
      /\ Len(notifications') = Len(notifications) + 1
      /\ LastNote.type = "error"
      /\ LastNote.message = "Failed to load product. Please try again."
      /\ modalActive' = modalActive
      /\ UNCHANGED << colorButtons, btnDisabled, btnText >>
      /\ UNCHANGED << selectedColor, selectedSize >>
      /\ currentProduct' = currentProduct

Idle ==
  /\ \A q \in DOMAIN reqs : ~InFlight(q)
  /\ btnText = "ADD TO CART"

C13_SuccessLeadsToReset ==
  \A r \in 1..MaxInvocations :
    (r \in DOMAIN reqs /\ reqs[r].phase = "success")
      ~> (selectedColor = NULL /\ selectedSize = NULL /\ Idle)

\* After a success the timer has fired: selection empty, overlay closed,
\* nothing in flight.
C13_Witness ==
  /\ \E r \in DOMAIN reqs : reqs[r].phase = "success"
  /\ closeTimers = 0 /\ ~modalActive
  /\ selectedColor = NULL /\ selectedSize = NULL /\ Idle


\* C14: the cart-count refresh is started only by the step that reports a
\* success, and the step that answers it, ok or failed, changes nothing of
\* the popup: the notifications, the submissions, the pending close timers,
\* the product, the selection and the button stay as they were.
C14_CartRefreshStep ==
  /\ cartFetches' > cartFetches =>
       /\ cartFetches' = cartFetches + 1
       /\ Len(notifications') = Len(notifications) + 1
       /\ LastNote.type = "success"
       /\ \E r \in DOMAIN reqs :
            InFlight(r) /\ reqs'[r].phase = "success" /\ LastNote.req = r
       /\ closeTimers' = closeTimers + 1
  /\ cartFetches' < cartFetches =>
       UNCHANGED << currentProduct, selectedColor, selectedSize, domVars, opens,
                    reqs, calls, notifications, closeTimers >>

C14_CartRefreshIsBestEffort == [][C14_CartRefreshStep]_vars

\* The refresh of a successful submission has failed (no cart:updated event
\* was dispatched); the success notification stands and the close timer is
\* still pending.
C14_Witness ==
  /\ cartFetches = 0 /\ cartUpdated = 0
  /\ closeTimers = 1
  /\ \E r \in DOMAIN reqs :
       /\ reqs[r].phase = "success"
       /\ Cardinality(NotesOf(r, "success")) = 1 /\ NotesOf(r, "error") = {}
  /\ \A n \in DOMAIN notifications : notifications[n].type = "success"


\* C15: nothing is retried.  A submission issues at most one primary add,
\* one jacket lookup and one jacket add; a primary add is only issued by the
\* step that creates the submission; the step in which a call or a product
\* load fails issues no call and no load; and a submission that has ended in
\* error stays ended and gets no further call.
CallSteps == {"primary", "bundleLookup", "bundleAdd"}

C15_NoRetryStep ==
  /\ \A r \in DOMAIN reqs' : \A st \in CallSteps :
       Cardinality({k \in DOMAIN calls' :
                      calls'[k].req = r /\ calls'[k].step = st}) <= 1
  /\ \A k \in DOMAIN calls' :
       (k \notin DOMAIN calls /\ calls'[k].step = "primary") =>
         SubmitStep /\ calls'[k].req = Len(reqs')
  /\ (\E k \in DOMAIN calls :
        calls[k].status = "pending" /\ calls'[k].status = "failed") =>
       Len(calls') = Len(calls) /\ Len(opens') = Len(opens)
  /\ \A r \in DOMAIN reqs :
       reqs[r].phase = "error" =>
         /\ reqs'[r].phase = "error"
         /\ \A k \in DOMAIN calls' : calls'[k].req = r => k \in DOMAIN calls
  /\ \A r \in DOMAIN reqs :
       (InFlight(r) /\ reqs'[r].phase = "error") =>
         Len(calls') = Len(calls) /\ cartFetches' = cartFetches
  /\ \A i \in DOMAIN opens :
       (opens[i].status = "pending" /\ opens'[i].status = "failed") =>
         Len(opens') = Len(opens) /\ calls' = calls
  /\ \A i \in DOMAIN opens :
       opens[i].status = "failed" => opens'[i].status = "failed"

C15_NoAutomaticRetry == [][C15_NoRetryStep]_vars

\* A product load has failed and a submission has failed on its primary add;
\* nothing is pending.
C15_Witness ==
  /\ \E i \in DOMAIN opens : opens[i].status = "failed"
  /\ \A i \in DOMAIN opens : opens[i].status # "pending"
  /\ \E r \in DOMAIN reqs :
       reqs[r].phase = "error" /\ PrimaryStatus(r, "failed")
  /\ \A k \in DOMAIN calls : calls[k].status # "pending"
  /\ ~btnDisabled


\* C16: completeness of the selection is decided on the values held at the
\* moment, whatever the order of the changes before.  A submit is accepted by
\* the validation exactly when color and size are both non-empty in the state
\* it is made in, and every change of color or size made in the open popup
\* leaves the button enabled exactly when both are non-empty after it.
C16_SelectionStep ==
  /\ SubmitStep =>
       (reqs'[Len(reqs')].phase # "incomplete"
          <=> (Truthy(selectedColor) /\ Truthy(selectedSize)))
  /\ (/\ modalActive /\ modalActive'
      /\ << selectedColor, selectedSize >>' # << selectedColor, selectedSize >>) =>
       (~btnDisabled' <=> (Truthy(selectedColor') /\ Truthy(selectedSize')))

C16_CompleteIffBothChosen == [][C16_SelectionStep]_vars

\* A selection was accepted, then the size was changed back to the empty
\* "Choose your size" option and the next submit, same color, was rejected.
C16_Witness ==
  \E r1, r2 \in DOMAIN reqs :
    /\ r1 < r2
    /\ reqs[r1].phase # "incomplete"
    /\ Truthy(reqs[r1].color) /\ Truthy(reqs[r1].size)
    /\ reqs[r2].phase = "incomplete"
    /\ reqs[r2].color = reqs[r1].color /\ reqs[r2].size = ""


\* C17: once a submission has ended in success, a submit made with no color
\* or size picked since is rejected as an incomplete selection and sends
\* nothing.
C17_ResubmitStep ==
  (/\ SubmitStep
   /\ ~selectionFresh
   /\ \E r \in DOMAIN reqs : reqs[r].phase = "success") =>
    /\ reqs'[Len(reqs')].phase = "incomplete"
    /\ NoGatewayCall

C17_SuccessfulSelectionNotResubmitted == [][C17_ResubmitStep]_vars

\* C18: a close timer left by a submission of a popup session that the user
\* has closed does not close the overlay of a session opened since, nor reset
\* its product and selection.
StaleTimerOnly ==
  /\ closeTimers > 0
  /\ \A r \in DOMAIN reqs :
       reqs[r].phase = "success" =>
         reqs[r].session <= closedSession /\ closedSession < Shown
  /\ opens[Len(opens)].status = "ok" /\ opens[Len(opens)].after = closedSession
  /\ currentProduct = ProductData(opens[Len(opens)].handle)

C18_StaleTimerStep ==
  (modalActive /\ StaleTimerOnly /\ closeTimers' < closeTimers) =>
    /\ modalActive'
    /\ UNCHANGED << selectedColor, selectedSize >>
    /\ currentProduct' = currentProduct

C18_StaleTimerSparesNewSession == [][C18_StaleTimerStep]_vars

\* C19: once two opens, the second made before the first had returned, have
\* both returned ok, the product held and shown is the one of the second,
\* and a submit resolves its variant in that product's list.
BothReturned ==
  /\ Len(opens) = 2
  /\ opens[1].status = "ok" /\ opens[2].status = "ok"
  /\ opens[1].handle # opens[2].handle
  /\ modalActive
  /\ closedSession = 0 /\ closeTimers = 0
  /\ \A r \in DOMAIN reqs : reqs[r].session = 2

C19_LastRequestedShown ==
  BothReturned =>
    /\ currentProduct = ProductData(opens[2].handle)
    /\ \A r \in DOMAIN reqs :
         reqs[r].variant # 0 =>
           \E i \in DOMAIN ProductData(opens[2].handle).variants :
             ProductData(opens[2].handle).variants[i].id = reqs[r].variant

====
